---- MODULE Spec2Model ----
(***************************************************************************)
(* Model of src/src/duplicate-detector.ts: the DuplicateTransactionDetector *)
(* (reconciliation engine) and the TransactionMapper (record mapper).       *)
(*                                                                          *)
(* JavaScript values are encoded uniformly so that strict equality, the     *)
(* truthiness tests and missing fields behave as in the source:             *)
(*   undefined  is  << >>                                                   *)
(*   NaN        is  <<"NaN">>                                               *)
(*   a value v  is  <<"val", v>>                                            *)
(*                                                                          *)
(* Three specifications share the variables: SpecDetector (one detector and *)
(* its checkForDuplicates calls), SpecMapper (one mapper and its            *)
(* mapTransactions call) and SpecLedger (import runs against a ledger).     *)
(* generateSyntheticKeyFromTransaction is never called and always returns   *)
(* null; it and the three filter helpers (getDuplicateCount, ...) have no   *)
(* effect on the state and are left out.                                    *)
(***************************************************************************)
EXTENDS Integers, Sequences, FiniteSets, TLC

VARIABLES
  existing,                  \* the array handed to the detector's constructor
  existingTransactions,      \* Map imported_id -> transaction
  pendingTransactionsByKey,  \* Map synthetic key -> transaction, in insertion order
  batch,                     \* argument of the checkForDuplicates calls
  outputs,                   \* return value of each checkForDuplicates call so far
  accountMappings,           \* the mapper's AccountMapping[]
  sources,                   \* argument of the last mapTransactions call
  mapped,                    \* return value of the last mapTransactions call
  warnings,                  \* console.warn messages emitted by the last call
  ledger,                    \* the persisted ledger records
  runs                       \* number of import runs applied to the ledger

detectorVars == <<existing, existingTransactions, pendingTransactionsByKey, batch, outputs>>
mapperVars == <<accountMappings, sources, mapped, warnings>>
ledgerVars == <<ledger, runs>>
vars == <<detectorVars, mapperVars, ledgerVars>>

-----------------------------------------------------------------------------
(* JavaScript values *)

Undefined == << >>
NaN == <<"NaN">>
Val(x) == <<"val", x>>
Get(v) == v[2]

\* a === b
StrictEquals(a, b) == a = b /\ a # NaN

\* the truthiness of a string-or-undefined value, as in `if (x)` and `!x`
Truthy(v) == v # Undefined /\ v # Val("")

\* s.startsWith(p)
StartsWith(s, p) == Len(s) >= Len(p) /\ SubSeq(s, 1, Len(p)) = p

-----------------------------------------------------------------------------
(* DuplicateTransactionDetector *)

PendingPrefix == "lf_pending_"

isPendingImportedId(importedId) == StartsWith(importedId, PendingPrefix)

\* null is modelled as Undefined: the only use is the truthiness test of the caller.
\* The prefix is the first occurrence of 'lf_pending_', so replace() strips it.
extractSyntheticKey(pendingImportedId) ==
  IF ~isPendingImportedId(pendingImportedId)
  THEN Undefined
  ELSE Val(SubSeq(pendingImportedId, Len(PendingPrefix) + 1, Len(pendingImportedId)))

\* Map.prototype.set on a Map with string keys, kept as a function.
MapSet(m, k, v) == [x \in (DOMAIN m) \cup {k} |-> IF x = k THEN v ELSE m[x]]

\* Map.prototype.set on a Map whose iteration order matters, kept as a sequence of
\* entries: an existing key keeps its position and takes the new value.
OrderedMapSet(m, k, v) ==
  IF \E i \in DOMAIN m : m[i].key = k
  THEN [i \in DOMAIN m |-> IF m[i].key = k THEN [key |-> k, value |-> v] ELSE m[i]]
  ELSE Append(m, [key |-> k, value |-> v])

EmptyMap == [x \in {} |-> Undefined]

RECURSIVE buildTransactionMapFrom(_, _, _)
buildTransactionMapFrom(transactions, byId, byKey) ==
  IF transactions = << >>
  THEN [existingTransactions |-> byId, pendingTransactionsByKey |-> byKey]
  ELSE LET transaction == Head(transactions)
           rest == Tail(transactions)
       IN IF ~Truthy(transaction.imported_id)
          THEN buildTransactionMapFrom(rest, byId, byKey)
          ELSE LET importedId == Get(transaction.imported_id)
                   byId2 == MapSet(byId, importedId, transaction)
                   syntheticKey == extractSyntheticKey(importedId)
               IN IF isPendingImportedId(importedId) /\ Truthy(syntheticKey)
                  THEN buildTransactionMapFrom(rest, byId2,
                          OrderedMapSet(byKey, Get(syntheticKey), transaction))
                  ELSE buildTransactionMapFrom(rest, byId2, byKey)

\* clear() of both maps, then the loop
buildTransactionMap(transactions) == buildTransactionMapFrom(transactions, EmptyMap, << >>)

\* mutation of transactionsMatch: the account comparison is lost
transactionsMatch_NoAccount(tx1, tx2) ==
  /\ StrictEquals(tx1.date, tx2.date)
  /\ StrictEquals(tx1.amount, tx2.amount)
  /\ StrictEquals(tx1.payee_name, tx2.payee_name)

transactionsMatch(tx1, tx2) ==
  /\ StrictEquals(tx1.account, tx2.account)
  /\ StrictEquals(tx1.date, tx2.date)
  /\ StrictEquals(tx1.amount, tx2.amount)
  /\ StrictEquals(tx1.payee_name, tx2.payee_name)

\* the first entry, in iteration order, whose transaction matches; null as Undefined
findMatchingPendingTransaction(byKey, postedTransaction) ==
  LET hits == {i \in DOMAIN byKey : transactionsMatch(postedTransaction, byKey[i].value)}
  IN IF hits = {}
     THEN Undefined
     ELSE Val(byKey[CHOOSE i \in hits : \A j \in hits : i <= j].value)

NotDuplicate ==
  [isDuplicate |-> FALSE, duplicateOf |-> Undefined,
   existingTransaction |-> Undefined, shouldReplace |-> Undefined]

\* mutation of checkTransaction: the pending scan runs before the exact lookup
checkTransaction_SettlementFirst(byId, byKey, transaction) ==
  IF ~Truthy(transaction.imported_id)
  THEN NotDuplicate
  ELSE LET importedId == Get(transaction.imported_id)
           matchingPending == findMatchingPendingTransaction(byKey, transaction)
       IN IF ~isPendingImportedId(importedId) /\ matchingPending # Undefined
          THEN [isDuplicate |-> TRUE, duplicateOf |-> Get(matchingPending).id,
                existingTransaction |-> matchingPending,
                shouldReplace |-> Val(TRUE)]
          ELSE IF importedId \in DOMAIN byId
          THEN [isDuplicate |-> TRUE, duplicateOf |-> byId[importedId].id,
                existingTransaction |-> Val(byId[importedId]),
                shouldReplace |-> Val(FALSE)]
          ELSE NotDuplicate

checkTransaction(byId, byKey, transaction) ==
  IF ~Truthy(transaction.imported_id)
  THEN NotDuplicate
  ELSE LET importedId == Get(transaction.imported_id)
           matchingPending == findMatchingPendingTransaction(byKey, transaction)
       IN IF importedId \in DOMAIN byId
          THEN [isDuplicate |-> TRUE, duplicateOf |-> byId[importedId].id,
                existingTransaction |-> Val(byId[importedId]),
                shouldReplace |-> Val(FALSE)]
          ELSE IF ~isPendingImportedId(importedId) /\ matchingPending # Undefined
          THEN [isDuplicate |-> TRUE, duplicateOf |-> Get(matchingPending).id,
                existingTransaction |-> matchingPending,
                shouldReplace |-> Val(TRUE)]
          ELSE NotDuplicate

\* { ...transaction, isDuplicate, duplicateOf, shouldReplace }
Annotate(transaction, duplicateInfo) ==
  [isDuplicate |-> duplicateInfo.isDuplicate,
   duplicateOf |-> duplicateInfo.duplicateOf,
   shouldReplace |-> duplicateInfo.shouldReplace] @@ transaction

checkForDuplicates(byId, byKey, newTransactions) ==
  [i \in DOMAIN newTransactions |->
     Annotate(newTransactions[i], checkTransaction(byId, byKey, newTransactions[i]))]

-----------------------------------------------------------------------------
(* Inputs of the detector *)

MaxExisting == 2
MaxBatch == 2
MaxCalls == 2

Tx(importedId, account, date, amount, payee) ==
  [id |-> Undefined, imported_id |-> importedId, account |-> account,
   date |-> date, amount |-> amount, payee_name |-> payee]

\* Existing ledger rows (the ledger assigns the id, see WithIds): two provisional
\* rows sharing one importedId (their payees have one slug), a provisional row on
\* another account, one without a date, one whose importedId is the bare prefix,
\* a settled row and a row without importedId.
ExistingRows ==
  { Tx(Val("lf_pending_a1_d1_100_starbucks"), Val("a1"), Val("d1"), Val(100), Val("Starbucks")),
    Tx(Val("lf_pending_a1_d1_100_starbucks"), Val("a1"), Val("d1"), Val(100), Val("starbucks")),
    Tx(Val("lf_pending_a2_d1_100_starbucks"), Val("a2"), Val("d1"), Val(100), Val("Starbucks")),
    Tx(Val("lf_pending_a1__100_starbucks"), Val("a1"), Undefined, Val(100), Val("Starbucks")),
    Tx(Val("lf_pending_"), Val("a1"), Val("d1"), Val(100), Val("Starbucks")),
    Tx(Val("lf_1"), Val("a1"), Val("d1"), Val(100), Val("Starbucks")),
    Tx(Undefined, Val("a1"), Val("d1"), Val(100), Val("Starbucks")) }

\* Candidates, as the mapper hands them over (no ledger id yet): settled ones with
\* a fresh importedId (plain, on another account, without a date), a settled one
\* and a provisional one whose importedId may be in the ledger, and one without
\* importedId.
Candidates ==
  { Tx(Val("lf_2"), Val("a1"), Val("d1"), Val(100), Val("Starbucks")),
    Tx(Val("lf_2"), Val("a2"), Val("d1"), Val(100), Val("Starbucks")),
    Tx(Val("lf_2"), Val("a1"), Undefined, Val(100), Val("Starbucks")),
    Tx(Val("lf_1"), Val("a1"), Val("d1"), Val(100), Val("Starbucks")),
    Tx(Val("lf_pending_a1_d1_100_starbucks"), Val("a2"), Val("d1"), Val(100), Val("Starbucks")),
    Tx(Undefined, Val("a1"), Val("d1"), Val(100), Val("Starbucks")) }

SeqsUpTo(S, n) == UNION {[1..k -> S] : k \in 0..n}

\* ledger-assigned ids, unique per row
WithIds(rows) == [i \in DOMAIN rows |-> [rows[i] EXCEPT !.id = Val("r" \o ToString(i))]]

Snapshots == {WithIds(rows) : rows \in SeqsUpTo(ExistingRows, MaxExisting)}

Batches == SeqsUpTo(Candidates, MaxBatch)

-----------------------------------------------------------------------------
(* The detector as a state machine *)

MapperIdle ==
  /\ accountMappings = << >>
  /\ sources = << >>
  /\ mapped = << >>
  /\ warnings = << >>

LedgerIdle ==
  /\ ledger = << >>
  /\ runs = 0

\* new DuplicateTransactionDetector(snapshot)
Constructed(snapshot) ==
  /\ existing = snapshot
  /\ existingTransactions = buildTransactionMap(snapshot).existingTransactions
  /\ pendingTransactionsByKey = buildTransactionMap(snapshot).pendingTransactionsByKey

InitDetector ==
  /\ \E snapshot \in Snapshots : Constructed(snapshot)
  /\ batch = << >>
  /\ outputs = << >>
  /\ MapperIdle
  /\ LedgerIdle

\* mutation of CheckForDuplicates: a call records its new candidates in the index
CheckForDuplicates_Registering ==
  /\ Len(outputs) < MaxCalls
  /\ \E b \in Batches :
       /\ outputs = << >> \/ b = batch
       /\ batch' = b
       /\ outputs' = Append(outputs,
            checkForDuplicates(existingTransactions, pendingTransactionsByKey, b))
       /\ existingTransactions' =
            buildTransactionMapFrom(b, existingTransactions,
                                    pendingTransactionsByKey).existingTransactions
  /\ UNCHANGED <<existing, pendingTransactionsByKey>>
  /\ UNCHANGED <<mapperVars, ledgerVars>>

\* detector.checkForDuplicates(b): the first call takes any batch, a later call
\* re-runs the same batch on the same detector.
CheckForDuplicates ==
  /\ Len(outputs) < MaxCalls
  /\ \E b \in Batches :
       /\ outputs = << >> \/ b = batch
       /\ batch' = b
       /\ outputs' = Append(outputs,
            checkForDuplicates(existingTransactions, pendingTransactionsByKey, b))
  /\ UNCHANGED <<existing, existingTransactions, pendingTransactionsByKey>>
  /\ UNCHANGED <<mapperVars, ledgerVars>>

NextDetector == CheckForDuplicates

SpecDetector == InitDetector /\ [][NextDetector]_vars

-----------------------------------------------------------------------------
(* Claims about the detector, over every call made so far *)

CallSites == {<<k, i>> \in (DOMAIN outputs) \X (DOMAIN batch) : i \in DOMAIN outputs[k]}

HasImportedId(t) == t.imported_id # Undefined /\ t.imported_id # Val("")

IsProvisional(t) == HasImportedId(t) /\ StartsWith(Get(t.imported_id), "lf_pending_")

IsSettled(t) == HasImportedId(t) /\ ~StartsWith(Get(t.imported_id), "lf_pending_")

ExactHits(c) == {j \in DOMAIN existing : HasImportedId(c) /\ existing[j].imported_id = c.imported_id}

SameContent(a, b) ==
  /\ a.account = b.account
  /\ a.date = b.date
  /\ a.amount = b.amount
  /\ a.payee_name = b.payee_name

ContentTwins(c) == {j \in DOMAIN existing : IsProvisional(existing[j]) /\ SameContent(existing[j], c)}

LacksField(c) ==
  c.account = Undefined \/ c.date = Undefined \/ c.amount = Undefined \/ c.payee_name = Undefined

\* C1: a candidate whose importedId is carried by an existing record is a Duplicate
\* with shouldReplace = false, and duplicateOf is the id of an existing record with
\* that importedId, whatever its content fields and whatever provisional records
\* match its content.
C1_ExactIdPriority ==
  \A s \in CallSites :
    LET c == batch[s[2]]
        o == outputs[s[1]][s[2]]
    IN ExactHits(c) # {} =>
         /\ o.isDuplicate
         /\ o.shouldReplace = Val(FALSE)
         /\ \E j \in ExactHits(c) : o.duplicateOf = existing[j].id

\* C1 witness: an exact hit on one record while a different, provisional record
\* equals the candidate on all four content fields.
C1_Witness ==
  \E s \in CallSites :
    LET c == batch[s[2]]
    IN /\ ExactHits(c) # {}
       /\ ContentTwins(c) \ ExactHits(c) # {}
       /\ outputs[s[1]][s[2]].isDuplicate

\* C2: a settled candidate with no exact hit that equals an existing provisional
\* record on account, date, amount and payee is a Duplicate with shouldReplace =
\* true, and duplicateOf is the id of a provisional record with those four fields.
C2_SettlementLinkage ==
  \A s \in CallSites :
    LET c == batch[s[2]]
        o == outputs[s[1]][s[2]]
    IN (IsSettled(c) /\ ExactHits(c) = {} /\ ContentTwins(c) # {}) =>
         /\ o.isDuplicate
         /\ o.shouldReplace = Val(TRUE)
         /\ \E j \in ContentTwins(c) : o.duplicateOf = existing[j].id

\* C3: shouldReplace = true only for a settled candidate with no exact hit, naming
\* a provisional existing record equal to it on all four fields; and a settled
\* candidate with no exact hit whose account differs from that of every
\* provisional record is New.
C3_NoFalseSettlement ==
  \A s \in CallSites :
    LET c == batch[s[2]]
        o == outputs[s[1]][s[2]]
    IN /\ o.shouldReplace = Val(TRUE) =>
            /\ IsSettled(c)
            /\ ExactHits(c) = {}
            /\ \E j \in ContentTwins(c) : o.duplicateOf = existing[j].id
       /\ ( /\ IsSettled(c)
            /\ ExactHits(c) = {}
            /\ \A j \in DOMAIN existing :
                 IsProvisional(existing[j]) => existing[j].account # c.account )
          => ~o.isDuplicate

\* C3 witness: one call in which a candidate settles a provisional record and
\* another candidate, equal to a provisional record on date, amount and payee but
\* on another account, is New.
C3_Witness ==
  /\ \E s \in CallSites : outputs[s[1]][s[2]].shouldReplace = Val(TRUE)
  /\ \E s \in CallSites :
       LET c == batch[s[2]]
       IN /\ IsSettled(c)
          /\ ExactHits(c) = {}
          /\ ~outputs[s[1]][s[2]].isDuplicate
          /\ \E j \in DOMAIN existing :
               /\ IsProvisional(existing[j])
               /\ existing[j].date = c.date
               /\ existing[j].amount = c.amount
               /\ existing[j].payee_name = c.payee_name
          /\ \A j \in DOMAIN existing :
               IsProvisional(existing[j]) => existing[j].account # c.account

\* C4: a settled candidate with no exact hit that lacks account, date, amount or
\* payee is New, and every candidate of every call gets a verdict.
C4_MissingFieldsNonMatching ==
  /\ \A k \in DOMAIN outputs : DOMAIN outputs[k] = DOMAIN batch
  /\ \A s \in CallSites :
       LET c == batch[s[2]]
           o == outputs[s[1]][s[2]]
       IN /\ o.isDuplicate \in BOOLEAN
          /\ (IsSettled(c) /\ ExactHits(c) = {} /\ LacksField(c)) => ~o.isDuplicate

SameVerdict(a, b) ==
  /\ a.isDuplicate = b.isDuplicate
  /\ a.duplicateOf = b.duplicateOf
  /\ a.shouldReplace = b.shouldReplace

\* C7: every call on the same batch returns, position by position, the verdicts of
\* the first call, in the order and length of the batch, and no call changes the
\* existing records or either index.
C7_Idempotent ==
  /\ [](\A k \in DOMAIN outputs :
          /\ DOMAIN outputs[k] = DOMAIN batch
          /\ \A i \in DOMAIN batch :
               /\ SameVerdict(outputs[k][i], outputs[1][i])
               /\ outputs[k][i].imported_id = batch[i].imported_id
               /\ SameContent(outputs[k][i], batch[i]))
  /\ [][/\ existing' = existing
        /\ existingTransactions' = existingTransactions
        /\ pendingTransactionsByKey' = pendingTransactionsByKey]_vars

\* C7 witness: a batch of two classified twice, with two different verdicts.
C7_Witness ==
  /\ Len(outputs) = 2
  /\ Len(batch) = 2
  /\ outputs[2][1].isDuplicate
  /\ ~outputs[2][2].isDuplicate

-----------------------------------------------------------------------------
(* TransactionMapper *)

(* A source amount is a JavaScript number.  The model takes the amounts k/8,   *)
(* written Val(k): these and their products by 100 are exact in binary         *)
(* floating point, so that amount * 100 is the half-integer 25k/2, kept as the *)
(* number of halves 25k.  A non-numeric amount makes amount * 100 NaN.         *)
Times100(amount) == IF amount = NaN THEN NaN ELSE Val(25 * Get(amount))

Abs(n) == IF n < 0 THEN -n ELSE n

\* Math.round of a number of halves: the nearest integer, a tie going up
MathRound(x) == IF x = NaN THEN NaN ELSE Val((Get(x) + 1) \div 2)

\* x.toFixed(0) of a number of halves: the sign, then the nearest integer of the
\* magnitude, a tie going to the larger magnitude
ToFixed0(x) ==
  IF x = NaN
  THEN "NaN"
  ELSE IF Get(x) < 0
  THEN "-" \o ToString((Abs(Get(x)) + 1) \div 2)
  ELSE ToString((Get(x) + 1) \div 2)

DigitChars == "0123456789"

\* the characters of a string, as a set
CharsOf(s) == {SubSeq(s, i, i) : i \in 1..Len(s)}

Digits == CharsOf(DigitChars)

IsDigit(c) == c \in Digits

DigitValues == [c \in Digits |-> (CHOOSE d \in 1..Len(DigitChars) : SubSeq(DigitChars, d, d) = c) - 1]

DigitValue(c) == DigitValues[c]

\* the value of the leading decimal digits of s after the digits read so far
RECURSIVE ParseDigits(_, _)
ParseDigits(s, acc) ==
  IF s = "" \/ ~IsDigit(SubSeq(s, 1, 1))
  THEN acc
  ELSE ParseDigits(SubSeq(s, 2, Len(s)), 10 * acc + DigitValue(SubSeq(s, 1, 1)))

\* parseInt(s): an optional sign and the leading digits, NaN when there is none
ParseInt(s) ==
  LET negative == s # "" /\ SubSeq(s, 1, 1) = "-"
      body == IF negative THEN SubSeq(s, 2, Len(s)) ELSE s
  IN IF body = "" \/ ~IsDigit(SubSeq(body, 1, 1))
     THEN NaN
     ELSE Val(IF negative THEN -ParseDigits(body, 0) ELSE ParseDigits(body, 0))

\* `${n}` for an integer or NaN
NumberToString(n) == IF n = NaN THEN "NaN" ELSE ToString(Get(n))

UpperChars == "ABCDEFGHIJKLMNOPQRSTUVWXYZ"
LowerChars == "abcdefghijklmnopqrstuvwxyz"

LowerOfUpper ==
  [c \in CharsOf(UpperChars) |->
     LET u == CHOOSE u \in 1..Len(UpperChars) : SubSeq(UpperChars, u, u) = c
     IN SubSeq(LowerChars, u, u)]

\* toLowerCase on one character (ASCII letters; the model's merchants are ASCII)
LowerChar(c) == IF c \in DOMAIN LowerOfUpper THEN LowerOfUpper[c] ELSE c

SlugChars == CharsOf(LowerChars) \cup Digits

\* whether a character is in [a-z0-9]
IsSlugChar(c) == c \in SlugChars

\* s.toLowerCase().replace(/[^a-z0-9]/g, '')
RECURSIVE LowerAlnum(_)
LowerAlnum(s) ==
  IF s = ""
  THEN ""
  ELSE LET c == LowerChar(SubSeq(s, 1, 1))
       IN (IF IsSlugChar(c) THEN c ELSE "") \o LowerAlnum(SubSeq(s, 2, Len(s)))

SlugLength == 20

\* .substring(0, 20)
merchantSlug(merchant) ==
  LET stripped == LowerAlnum(merchant)
  IN SubSeq(stripped, 1, IF Len(stripped) < SlugLength THEN Len(stripped) ELSE SlugLength)

generateSyntheticId(lfTransaction) ==
  LET amountCents == MathRound(Times100(lfTransaction.amount))
  IN "lf_pending_" \o Get(lfTransaction.accountId) \o "_" \o Get(lfTransaction.date)
       \o "_" \o NumberToString(amountCents) \o "_" \o merchantSlug(Get(lfTransaction.merchant))

\* the record, or null (Undefined), together with the warnings the call emits
mapTransaction(mappings, lfTransaction) ==
  LET found == {i \in DOMAIN mappings :
                  StrictEquals(mappings[i].lunchFlowAccountId, lfTransaction.accountId)}
  IN IF found = {}
     THEN [value |-> Undefined,
           warned |-> << "No mapping found for Lunch Flow account "
                           \o Get(lfTransaction.accountId) >>]
     ELSE LET mapping == mappings[CHOOSE i \in found : \A j \in found : i <= j]
              isPending == StrictEquals(lfTransaction.isPending, Val(TRUE))
          IN [value |->
                Val([date |-> lfTransaction.date,
                     amount |-> ParseInt(ToFixed0(Times100(lfTransaction.amount))),
                     payee_name |-> lfTransaction.merchant,
                     imported_payee |-> lfTransaction.merchant,
                     account |-> mapping.actualBudgetAccountId,
                     cleared |-> Val(~isPending),
                     notes |-> IF isPending
                               THEN Val("[PENDING] " \o Get(lfTransaction.description))
                               ELSE lfTransaction.description,
                     imported_id |-> IF isPending
                                     THEN Val(generateSyntheticId(lfTransaction))
                                     ELSE Val("lf_" \o Get(lfTransaction.id)),
                     isPending |-> Val(isPending)]),
              warned |-> << >>]

RECURSIVE Concat(_)
Concat(seqs) == IF seqs = << >> THEN << >> ELSE Head(seqs) \o Concat(Tail(seqs))

\* mutation of mapTransactions: the batch stops at the first unmapped record
mapTransactions_AbortOnUnmapped(mappings, lfTransactions) ==
  LET results == [i \in DOMAIN lfTransactions |-> mapTransaction(mappings, lfTransactions[i])]
      stop == {i \in DOMAIN results : results[i].value = Undefined}
      upTo == IF stop = {} THEN Len(results) ELSE CHOOSE i \in stop : \A j \in stop : i <= j
      done == SubSeq(results, 1, upTo)
      kept == SelectSeq(done, LAMBDA r : r.value # Undefined)
  IN [value |-> [i \in DOMAIN kept |-> Get(kept[i].value)],
      warned |-> Concat([i \in DOMAIN done |-> done[i].warned])]

\* .map(t => this.mapTransaction(t)).filter(t => t !== null)
mapTransactions(mappings, lfTransactions) ==
  LET results == [i \in DOMAIN lfTransactions |-> mapTransaction(mappings, lfTransactions[i])]
      kept == SelectSeq(results, LAMBDA r : r.value # Undefined)
  IN [value |-> [i \in DOMAIN kept |-> Get(kept[i].value)],
      warned |-> Concat([i \in DOMAIN results |-> results[i].warned])]

-----------------------------------------------------------------------------
(* Inputs of the mapper *)

MaxSources == 2

Mapping(lunchFlowAccountId, actualBudgetAccountId) ==
  [lunchFlowAccountId |-> Val(lunchFlowAccountId),
   actualBudgetAccountId |-> Val(actualBudgetAccountId)]

\* "lfX" is mapped by no table; the second table maps "lfA" twice
MappingTables ==
  { << >>,
    << Mapping("lfA", "a1") >>,
    << Mapping("lfA", "a1"), Mapping("lfA", "a2"), Mapping("lfB", "a2") >> }

\* amounts: -0.125, 0.125, 20.00 and a non-numeric amount; the merchant has upper
\* case, characters outside [a-z0-9] and more than 20 characters inside it
SourceTransactions ==
  [id : {Val("7"), Val("pending_7")},
   accountId : {Val("lfA"), Val("lfX")},
   date : {Val("2024-01-05")},
   amount : {Val(-1), Val(1), Val(160), NaN},
   merchant : {Val("Joe's Cafe & Amazon Marketplace")},
   description : {Val("coffee")},
   isPending : {Val(TRUE), Val(FALSE)}]

SourceBatches == SeqsUpTo(SourceTransactions, MaxSources)

-----------------------------------------------------------------------------
(* The mapper as a state machine *)

DetectorIdle ==
  /\ Constructed(<< >>)
  /\ batch = << >>
  /\ outputs = << >>

InitMapper ==
  /\ accountMappings \in MappingTables
  /\ sources = << >>
  /\ mapped = << >>
  /\ warnings = << >>
  /\ DetectorIdle
  /\ LedgerIdle

\* mapper.mapTransactions(txs), once per mapper
MapTransactions ==
  /\ sources = << >>
  /\ \E txs \in SourceBatches :
       LET returned == mapTransactions(accountMappings, txs)
       IN /\ sources' = txs
          /\ mapped' = returned.value
          /\ warnings' = returned.warned
  /\ UNCHANGED accountMappings
  /\ UNCHANGED <<detectorVars, ledgerVars>>

NextMapper == MapTransactions

SpecMapper == InitMapper /\ [][NextMapper]_vars

-----------------------------------------------------------------------------
(* Claims about the mapper, over the last mapTransactions call *)

MappedAccountIds == {accountMappings[i].lunchFlowAccountId : i \in DOMAIN accountMappings}

\* positions of the source transactions whose accountId has a mapping
KeptPositions == {i \in DOMAIN sources : sources[i].accountId \in MappedAccountIds}

\* the j-th such position
KeptPosition(j) == CHOOSE i \in KeptPositions : Cardinality({x \in KeptPositions : x <= i}) = j

\* the ledger account of the first mapping of a source account
LedgerAccountOf(accountId) ==
  LET first == CHOOSE i \in DOMAIN accountMappings :
                 /\ accountMappings[i].lunchFlowAccountId = accountId
                 /\ \A j \in 1..(i - 1) : accountMappings[j].lunchFlowAccountId # accountId
  IN accountMappings[first].actualBudgetAccountId

\* C5: the output holds, in order, one record per source transaction on a mapped
\* account and none for the others, which never stop the batch, and one warning
\* is emitted per dropped transaction.
C5_UnmappedDropped ==
  /\ Len(mapped) = Cardinality(KeptPositions)
  /\ Len(warnings) = Len(sources) - Cardinality(KeptPositions)
  /\ \A j \in DOMAIN mapped :
       LET src == sources[KeptPosition(j)]
       IN /\ mapped[j].date = src.date
          /\ mapped[j].payee_name = src.merchant
          /\ mapped[j].isPending = src.isPending
          /\ mapped[j].account = LedgerAccountOf(src.accountId)
          /\ src.isPending = Val(FALSE) => mapped[j].imported_id = Val("lf_" \o Get(src.id))

\* C5 witness: a batch whose first transaction is unmapped and whose last is mapped
C5_Witness ==
  /\ Len(sources) >= 2
  /\ 1 \notin KeptPositions
  /\ Len(sources) \in KeptPositions
  /\ mapped # << >>
  /\ warnings # << >>

\* C6: no record built from a malformed (NaN) amount, and no record whose amount
\* is NaN, is in the output.
C6_MalformedAmountRejected ==
  \A j \in DOMAIN mapped :
    /\ mapped[j].amount # NaN
    /\ sources[KeptPosition(j)].amount # NaN

\* C9: the engine's pending test on a mapped record's importedId is true exactly
\* when the source transaction was provisional, exactly when cleared is false.
C9_PendingAgreement ==
  \A j \in DOMAIN mapped :
    LET provisional == sources[KeptPosition(j)].isPending = Val(TRUE)
    IN /\ provisional <=> (mapped[j].cleared = Val(FALSE))
       /\ isPendingImportedId(Get(mapped[j].imported_id)) <=> provisional

\* the fields of s between the separators "_"
RECURSIVE Fields(_, _)
Fields(s, current) ==
  IF s = ""
  THEN << current >>
  ELSE IF SubSeq(s, 1, 1) = "_"
  THEN << current >> \o Fields(SubSeq(s, 2, Len(s)), "")
  ELSE Fields(SubSeq(s, 2, Len(s)), current \o SubSeq(s, 1, 1))

\* the amount field of lf_pending_{accountId}_{date}_{amountCents}_{merchantSlug}:
\* the last field but one (a slug holds no "_")
EmbeddedAmount(importedId) ==
  LET fields == Fields(importedId, "") IN fields[Len(fields) - 1]

\* C10: for a provisional source transaction with a numeric amount, the amount
\* embedded in the synthetic importedId is the record's amount.
C10_SyntheticAmountAgrees ==
  \A j \in DOMAIN mapped :
    LET src == sources[KeptPosition(j)]
    IN (src.isPending = Val(TRUE) /\ src.amount # NaN) =>
         EmbeddedAmount(Get(mapped[j].imported_id)) = ToString(Get(mapped[j].amount))

-----------------------------------------------------------------------------
(* Import runs against a persisted ledger *)

MaxRuns == 2

\* the ledger row written for a classified candidate
Stored(candidate, id) ==
  [id |-> id, imported_id |-> candidate.imported_id, account |-> candidate.account,
   date |-> candidate.date, amount |-> candidate.amount,
   payee_name |-> candidate.payee_name]

\* The persistence collaborator, per classified record and in batch order: a New
\* record is inserted under a fresh ledger id, a Duplicate without shouldReplace
\* is skipped, a Duplicate with shouldReplace overwrites the row it names.
RECURSIVE Persist(_, _)
Persist(rows, classified) ==
  IF classified = << >>
  THEN rows
  ELSE LET c == Head(classified)
           after ==
             IF ~c.isDuplicate
             THEN Append(rows, Stored(c, Val("r" \o ToString(Len(rows) + 1))))
             ELSE IF c.shouldReplace = Val(TRUE)
             THEN [i \in DOMAIN rows |->
                     IF rows[i].id = c.duplicateOf THEN Stored(c, rows[i].id) ELSE rows[i]]
             ELSE rows
       IN Persist(after, Tail(classified))

\* no two rows carry the same importedId
UniqueImportedIds(rows) ==
  \A i, j \in DOMAIN rows :
    (i # j /\ Truthy(rows[i].imported_id)) => rows[i].imported_id # rows[j].imported_id

InitLedger ==
  /\ ledger \in {snapshot \in Snapshots : UniqueImportedIds(snapshot)}
  /\ runs = 0
  /\ DetectorIdle
  /\ MapperIdle

\* One import run: a detector is built from the current ledger, the batch is
\* classified by checkForDuplicates and the result is persisted.
Run ==
  /\ runs < MaxRuns
  /\ \E b \in Batches :
       LET detector == buildTransactionMap(ledger)
           classified == checkForDuplicates(detector.existingTransactions,
                                            detector.pendingTransactionsByKey, b)
       IN ledger' = Persist(ledger, classified)
  /\ runs' = runs + 1
  /\ UNCHANGED <<detectorVars, mapperVars>>

NextLedger == Run

SpecLedger == InitLedger /\ [][NextLedger]_vars

\* C8: from a ledger with unique importedIds, after any sequence of runs the
\* ledger still holds no two records with the same importedId.
C8_LedgerImportedIdsUnique == UniqueImportedIds(ledger)

====
